---- MODULE Spec2Model ----
(***************************************************************************)
(* eslint-plugin-padding-lines: the statements rule and the objects rule.  *)
(*                                                                         *)
(* A source text is a sequence of atoms.  Every atom is one character wide *)
(* for the purpose of offsets: the atom at index i has range [i-1, i].     *)
(*   "tok"     any token that is not one of the punctuators below          *)
(*   "semi"    the punctuator ;      "comma"  the punctuator ,             *)
(*   "lbrace"  the punctuator {      "rbrace" the punctuator }             *)
(*   "lparen"  the punctuator (      "rparen" the punctuator )             *)
(*   "cblock"  a block comment on one line                                 *)
(*   "cline"   a line comment (always followed by a line break)            *)
(*   "cmulti"  a block comment that spans two lines                        *)
(*   "nl"      a line break          "sp"     a space                      *)
(* A token or comment is named by its index in the text; 0 is null.        *)
(***************************************************************************)
EXTENDS Integers, Sequences, FiniteSets, TLC

VARIABLES
    rule,        \* which rule's create() ran: "statements" or "objects"
    text,        \* sourceCode.text
    original,    \* the text the first lint pass saw
    options,     \* context.options
    scopeInfo,   \* statements: the scope stack, current scope last; each
                 \* scope holds prevNode as a sequence of no or one node
    events,      \* statements: the listener calls the traversal has still
                 \* to make, each [listener, node], in the linter's order
    nextNode,    \* statements: the node of the last listener call
    objectNode,  \* objects: the ObjectExpression handed to the listener
    reports,     \* what context.report received in the last pass, in order
    checked,     \* log of the last pass: what the handler computed
    applied,     \* the report whose fix was applied to the text
    pc           \* "created", "linted", "fixed", "relinted"; "traversing"
                 \* while a whole tree is walked

vars == <<rule, text, original, options, scopeInfo, events, nextNode,
          objectNode, reports, checked, applied, pc>>

(***************************************************************************)
(* Bounds of the model.                                                    *)
(***************************************************************************)
\* longest run of white space and comments between two statements
MaxFill == 5
\* most comments in one run between two statements
MaxComments == 1
\* most spaces in one run between two statements
MaxSpaces == 1
\* most white space and comment atoms inside one object literal
MaxObjFill == 3
\* longest configuration list of the resolver specification
MaxRules == 2
\* longest statement list of the classifier specification
MaxStatements == 3
\* longest statement list of the traversal specification
MaxBody == 2

(***************************************************************************)
(* Atoms, lines and ranges.                                                *)
(***************************************************************************)
IsComment(a) == a \in {"cblock", "cline", "cmulti"}

IsToken(a) ==
    a \in {"tok", "semi", "comma", "lbrace", "rbrace", "lparen", "rparen"}

IsSpace(a) == a \in {"nl", "sp"}

\* line breaks an atom holds
Breaks(a) == IF a \in {"nl", "cmulti"} THEN 1 ELSE 0

RECURSIVE BreaksBefore(_, _)
BreaksBefore(t, i) ==
    IF i <= 1 THEN 0 ELSE BreaksBefore(t, i - 1) + Breaks(t[i - 1])

\* token.loc.start.line
StartLine(t, i) == 1 + BreaksBefore(t, i)

\* token.loc.end.line
EndLine(t, i) == StartLine(t, i) + (IF t[i] = "cmulti" THEN 1 ELSE 0)

\* token.range[0] and token.range[1]
RangeStart(i) == i - 1

RangeEnd(i) == i

Min(S) == CHOOSE x \in S : \A y \in S : x <= y

Max(S) == CHOOSE x \in S : \A y \in S : x >= y

(***************************************************************************)
(* The SourceCode interface the rules consume.                             *)
(***************************************************************************)
Visible(t, j, includeComments) ==
    IsToken(t[j]) \/ (includeComments /\ IsComment(t[j]))

getTokenAfter(t, i, includeComments) ==
    LET S == {j \in (i + 1)..Len(t) : Visible(t, j, includeComments)}
    IN  IF S = {} THEN 0 ELSE Min(S)

getTokenBefore(t, i) ==
    LET S == {j \in 1..(i - 1) : IsToken(t[j])}
    IN  IF S = {} THEN 0 ELSE Max(S)

\* the comments between the token before i and the token i, in order
getCommentsBefore(t, i) ==
    LET b == getTokenBefore(t, i)
    IN  SelectSeq([k \in 1..(i - b - 1) |-> b + k], LAMBDA j : IsComment(t[j]))

\* index of the k-th token of the text (comments are not tokens)
NthToken(t, k) ==
    LET S == {j \in 1..Len(t) :
                 /\ IsToken(t[j])
                 /\ Cardinality({h \in 1..j : IsToken(t[h])}) = k}
    IN  IF S = {} THEN 0 ELSE Min(S)

\* A node names its tokens by ordinal, which white space edits leave alone.
getFirstToken(t, node) == NthToken(t, node.first)

getLastToken(t, node) == NthToken(t, node.last)

NodeRangeStart(t, node) == RangeStart(getFirstToken(t, node))

NodeStartLine(t, node) == StartLine(t, getFirstToken(t, node))

NodeEndLine(t, node) == EndLine(t, getLastToken(t, node))

(***************************************************************************)
(* util.js                                                                 *)
(***************************************************************************)
isFunction(node) ==
    node.type \in {"FunctionDeclaration", "FunctionExpression",
                   "ArrowFunctionExpression"}

isSemicolonToken(t, i) == t[i] = "semi"

isParenthesised(t, node) ==
    LET previousToken == getTokenBefore(t, getFirstToken(t, node))
        nextToken == getTokenAfter(t, getLastToken(t, node), FALSE)
    IN  /\ previousToken # 0
        /\ nextToken # 0
        /\ t[previousToken] = "lparen"
        /\ RangeEnd(previousToken) <= RangeStart(getFirstToken(t, node))
        /\ t[nextToken] = "rparen"
        /\ RangeStart(nextToken) >= RangeEnd(getLastToken(t, node))

isTokenOnSameLine(t, left, right) == EndLine(t, left) = StartLine(t, right)

(***************************************************************************)
(* Edits.  fixer.replaceTextRange(range, text) and                         *)
(* fixer.insertTextAfter(token, text) both yield {range, text}; a fix      *)
(* callback may also return null.                                          *)
(***************************************************************************)
null == [range |-> <<-1, -1>>, text |-> <<>>]

replaceTextRange(start, end, newText) == [range |-> <<start, end>>, text |-> newText]

insertTextAfter(i, newText) == [range |-> <<RangeEnd(i), RangeEnd(i)>>, text |-> newText]

\* text.slice(start, end)
Slice(t, start, end) == SubSeq(t, start + 1, end)

\* the text with one edit applied
ApplyEdit(t, fix) ==
    Slice(t, 0, fix.range[1]) \o fix.text \o Slice(t, fix.range[2], Len(t))

(***************************************************************************)
(* Statement types.  A statement node is a record                          *)
(*   type   the node kind                                                  *)
(*   first, last   ordinals of its first and last token                    *)
(*   kw     the value of its first token                                   *)
(*   init   the kind of declarations[0].init ("null" when absent)          *)
(*   body   a LabeledStatement's body, as a sequence of one node; in the   *)
(*          traversal specification the child statements of any node       *)
(*   expression   an ExpressionStatement's expression: its type, the type  *)
(*          of its value and the ordinals of its first and last token      *)
(*   parent   [type, parent, body]: the parent's type, the type of the     *)
(*          parent's parent, and the parent's statement list as a sequence *)
(*          of nodes [type, first, last, expression, parent], filled in    *)
(*          where the classification or a claim reads it; a node of that   *)
(*          list is the same node as one of equal first and last           *)
(* A label and what it labels are one "tok" atom, so a body shares the     *)
(* token ordinals of its LabeledStatement.                                 *)
(***************************************************************************)
newKeywordTester(keyword, t, node) == node.kw = keyword

newSinglelineKeywordTester(keyword, t, node) ==
    /\ NodeStartLine(t, node) = NodeEndLine(t, node)
    /\ node.kw = keyword

newMultilineKeywordTester(keyword, t, node) ==
    /\ NodeStartLine(t, node) # NodeEndLine(t, node)
    /\ node.kw = keyword

newNodeTypeTester(type, node) == node.type = type

\* Variant of isArrowFuntion: the type of the initialiser is not read.
isArrowFuntionAnyInit(node) ==
    /\ node.type = "VariableDeclaration"
    /\ node.init # "null"

isArrowFuntion(node) ==
    /\ node.type = "VariableDeclaration"
    /\ node.init # "null"
    /\ node.init = "ArrowFunctionExpression"

isDirective(t, node) ==
    /\ node.type = "ExpressionStatement"
    /\ \/ node.parent.type = "Program"
       \/ /\ node.parent.type = "BlockStatement"
          /\ isFunction(node.parent.parent)
    /\ node.expression.type = "Literal"
    /\ node.expression.value = "string"
    /\ ~isParenthesised(t, node.expression)

\* sibling === node
SameNode(sibling, node) ==
    sibling.first = node.first /\ sibling.last = node.last

RECURSIVE PrologueScan(_, _, _)
\* the loop of isDirectivePrologue over node.parent.body from index k on
PrologueScan(t, node, k) ==
    LET body == node.parent.body
    IN  IF k > Len(body) THEN TRUE
        ELSE IF SameNode(body[k], node) THEN TRUE
        ELSE IF ~isDirective(t, body[k]) THEN FALSE
        ELSE PrologueScan(t, node, k + 1)

\* Variant of isDirectivePrologue: the siblings before the node are not read.
isDirectivePrologueSelfOnly(t, node) == isDirective(t, node)

isDirectivePrologue(t, node) ==
    IF isDirective(t, node) THEN PrologueScan(t, node, 1) ELSE FALSE

KeywordTypes ==
    {"break", "case", "class", "continue", "debugger", "default", "do",
     "export", "for", "if", "import", "return", "switch", "throw", "try",
     "var", "while", "with"}

\* StatementTypes[name].test(node, sourceCode), for the categories modelled
StatementTypes(name, t, node) ==
    CASE name = "*" -> TRUE
      [] name = "arrow" -> isArrowFuntion(node)
      [] name = "block" -> newNodeTypeTester("BlockStatement", node)
      [] name = "const" -> ~isArrowFuntion(node)
      [] name = "directive" -> isDirectivePrologue(t, node)
      [] name = "empty" -> newNodeTypeTester("EmptyStatement", node)
      [] name = "expression" ->
            node.type = "ExpressionStatement" /\ ~isDirectivePrologue(t, node)
      [] name = "function" -> newNodeTypeTester("FunctionDeclaration", node)
      [] name = "let" -> ~isArrowFuntion(node)
      [] name = "multiline-const" -> newMultilineKeywordTester("const", t, node)
      [] name = "multiline-expression" ->
            /\ NodeStartLine(t, node) # NodeEndLine(t, node)
            /\ node.type = "ExpressionStatement"
            /\ ~isDirectivePrologue(t, node)
      [] name = "multiline-let" -> newMultilineKeywordTester("let", t, node)
      [] name = "multiline-var" -> newMultilineKeywordTester("var", t, node)
      [] name = "singleline-const" -> newSinglelineKeywordTester("const", t, node)
      [] name = "singleline-let" -> newSinglelineKeywordTester("let", t, node)
      [] name = "singleline-var" -> newSinglelineKeywordTester("var", t, node)
      [] name \in KeywordTypes -> newKeywordTester(name, t, node)

(***************************************************************************)
(* statementsRule.create: the configuration list and its matching.         *)
(* A selector is [isArray, names]: a bare name is a one-name selector with *)
(* isArray false.  A rule is [prev, next, blankLine].                      *)
(***************************************************************************)
configureList(opts) == opts

RECURSIVE Unlabel(_)
Unlabel(node) ==
    IF node.type = "LabeledStatement" THEN Unlabel(node.body[1]) ELSE node

match(t, node, type) ==
    LET innerStatementNode == Unlabel(node)
    IN  IF type.isArray
        THEN \E k \in 1..Len(type.names) :
                 StatementTypes(type.names[k], t, innerStatementNode)
        ELSE StatementTypes(type.names[1], t, innerStatementNode)

RECURSIVE getPaddingTypeUpFrom(_, _, _, _, _)
getPaddingTypeUpFrom(list, i, t, prev, next) ==
    IF i > Len(list) THEN "any"
    ELSE IF match(t, prev, list[i].prev) /\ match(t, next, list[i].next)
         THEN list[i].blankLine
         ELSE getPaddingTypeUpFrom(list, i + 1, t, prev, next)

\* Variant of getPaddingType: the loop runs from the first rule upwards.
getPaddingTypeFirstMatch(list, t, prev, next) ==
    getPaddingTypeUpFrom(list, 1, t, prev, next)

RECURSIVE getPaddingTypeFrom(_, _, _, _, _)
\* the loop of getPaddingType from index i downwards
getPaddingTypeFrom(list, i, t, prev, next) ==
    IF i < 1 THEN "any"
    ELSE IF match(t, prev, list[i].prev) /\ match(t, next, list[i].next)
         THEN list[i].blankLine
         ELSE getPaddingTypeFrom(list, i - 1, t, prev, next)

getPaddingType(list, t, prev, next) ==
    getPaddingTypeFrom(list, Len(list), t, prev, next)

(***************************************************************************)
(* The blank line scanner.                                                 *)
(***************************************************************************)
\* Variant of getActualLastToken: the token before the semicolon may lie
\* before the node.
getActualLastTokenAnyOwner(t, node) ==
    LET semiToken == getLastToken(t, node)
        prevToken == getTokenBefore(t, semiToken)
        nextToken == getTokenAfter(t, semiToken, FALSE)
        isSemicolonLessStyle ==
            /\ prevToken # 0
            /\ nextToken # 0
            /\ isSemicolonToken(t, semiToken)
            /\ StartLine(t, semiToken) # EndLine(t, prevToken)
            /\ EndLine(t, semiToken) = StartLine(t, nextToken)
    IN  IF isSemicolonLessStyle THEN prevToken ELSE semiToken

getActualLastToken(t, node) ==
    LET semiToken == getLastToken(t, node)
        prevToken == getTokenBefore(t, semiToken)
        nextToken == getTokenAfter(t, semiToken, FALSE)
        isSemicolonLessStyle ==
            /\ prevToken # 0
            /\ nextToken # 0
            /\ RangeStart(prevToken) >= NodeRangeStart(t, node)
            /\ isSemicolonToken(t, semiToken)
            /\ StartLine(t, semiToken) # EndLine(t, prevToken)
            /\ EndLine(t, semiToken) = StartLine(t, nextToken)
    IN  IF isSemicolonLessStyle THEN prevToken ELSE semiToken

RECURSIVE PaddingWalk(_, _, _, _)
\* The do-while loop of getPaddingLineSequences.  A null token past the end
\* of the text makes the code throw; no text of the model has one, since the
\* next node's first token follows prevToken.
PaddingWalk(t, prevToken, stop, pairs) ==
    LET token == getTokenAfter(t, prevToken, TRUE)
        found == IF StartLine(t, token) - EndLine(t, prevToken) >= 2
                 THEN Append(pairs, <<prevToken, token>>)
                 ELSE pairs
    IN  IF token = 0 THEN pairs
        ELSE IF RangeStart(token) < stop
             THEN PaddingWalk(t, token, stop, found)
             ELSE found

getPaddingLineSequences(t, prev, next) ==
    LET prevToken == getActualLastToken(t, prev)
    IN  IF NodeStartLine(t, next) - EndLine(t, prevToken) >= 2
        THEN PaddingWalk(t, prevToken, NodeRangeStart(t, next), <<>>)
        ELSE <<>>

(***************************************************************************)
(* The statement verifiers.  A report is [messageId, node, fix]; the fix   *)
(* callback reads nothing that changes before the linter calls it, so the  *)
(* report carries the edit it returns.                                     *)
(***************************************************************************)
LineBreakPositions(slice) == {k \in 1..Len(slice) : slice[k] = "nl"}

\* whether PADDING_LINE_SEQUENCE, ^(\s*?LT)\s*LT(\s*;?)$, matches the slice
PaddingLineSequenceMatches(slice) ==
    LET n == Len(slice)
        body == IF n > 0 /\ slice[n] = "semi" THEN n - 1 ELSE n
    IN  /\ \A k \in 1..body : IsSpace(slice[k])
        /\ Cardinality({k \in 1..body : slice[k] = "nl"}) >= 2

\* Variant of the replacement: the second \s* of the pattern is lazy, so
\* group 2 starts after the second line break.
replacerLazySecondRun(slice) ==
    IF PaddingLineSequenceMatches(slice)
    THEN LET first == Min(LineBreakPositions(slice))
             second == Min(LineBreakPositions(slice) \ {first})
         IN  SubSeq(slice, 1, first) \o SubSeq(slice, second + 1, Len(slice))
    ELSE slice

\* slice.replace(PADDING_LINE_SEQUENCE, replacerToRemovePaddingLines):
\* group 1 ends at the first line break, group 2 starts after the last one
replacerToRemovePaddingLines(slice) ==
    IF PaddingLineSequenceMatches(slice)
    THEN SubSeq(slice, 1, Min(LineBreakPositions(slice)))
         \o SubSeq(slice, Max(LineBreakPositions(slice)) + 1, Len(slice))
    ELSE slice

verifyForAny == <<>>

\* Variant of the never fix: no check for two or more gaps.
verifyForNeverFixFirstGap(t, paddingLines) ==
    LET start == RangeEnd(paddingLines[1][1])
        end == RangeStart(paddingLines[1][2])
    IN  replaceTextRange(start, end,
            replacerToRemovePaddingLines(Slice(t, start, end)))

verifyForNeverFix(t, paddingLines) ==
    IF Len(paddingLines) >= 2
    THEN null
    ELSE LET start == RangeEnd(paddingLines[1][1])
             end == RangeStart(paddingLines[1][2])
         IN  replaceTextRange(start, end,
                 replacerToRemovePaddingLines(Slice(t, start, end)))

\* Variant of verifyForNever: the early return is taken for one gap too.
verifyForNeverFromTwoGaps(t, next, paddingLines) ==
    IF Len(paddingLines) <= 1
    THEN <<>>
    ELSE <<[messageId |-> "unexpectedBlankLine",
            node |-> next,
            fix |-> verifyForNeverFix(t, paddingLines)]>>

verifyForNever(t, next, paddingLines) ==
    IF Len(paddingLines) = 0
    THEN <<>>
    ELSE <<[messageId |-> "unexpectedBlankLine",
            node |-> next,
            fix |-> verifyForNeverFix(t, paddingLines)]>>

RECURSIVE SkipTrailingComments(_, _, _, _)
\* getFirstTokenBetween(prevToken, nextNode, {filter, includeComments}) with
\* the filter's assignments to prevToken: <<prevToken, the token found or 0>>
SkipTrailingComments(t, prevToken, j, stop) ==
    IF j >= stop THEN <<prevToken, 0>>
    ELSE IF ~Visible(t, j, TRUE) THEN SkipTrailingComments(t, prevToken, j + 1, stop)
    ELSE IF isTokenOnSameLine(t, prevToken, j)
         THEN SkipTrailingComments(t, j, j + 1, stop)
         ELSE <<prevToken, j>>

\* Variant of the always fix: one line break whatever the lines are.
verifyForAlwaysFixOneBreak(t, prev, next) ==
    LET lastToken == getActualLastToken(t, prev)
        found == SkipTrailingComments(t, lastToken, lastToken + 1,
                                      getFirstToken(t, next))
    IN  insertTextAfter(found[1], <<"nl">>)

\* Variant of the always fix: the trailing comments are not skipped.
verifyForAlwaysFixAfterLastToken(t, prev, next) ==
    LET prevToken == getActualLastToken(t, prev)
        nextToken == getTokenAfter(t, prevToken, TRUE)
        insertText == IF EndLine(t, prevToken) = StartLine(t, nextToken)
                      THEN <<"nl", "nl">>
                      ELSE <<"nl">>
    IN  insertTextAfter(prevToken, insertText)

verifyForAlwaysFix(t, prev, next) ==
    LET lastToken == getActualLastToken(t, prev)
        found == SkipTrailingComments(t, lastToken, lastToken + 1,
                                      getFirstToken(t, next))
        prevToken == found[1]
        nextLine == IF found[2] # 0 THEN StartLine(t, found[2])
                    ELSE NodeStartLine(t, next)
        insertText == IF EndLine(t, prevToken) = nextLine
                      THEN <<"nl", "nl">>
                      ELSE <<"nl">>
    IN  insertTextAfter(prevToken, insertText)

verifyForAlways(t, prev, next, paddingLines) ==
    IF Len(paddingLines) > 0
    THEN <<>>
    ELSE <<[messageId |-> "expectedBlankLine",
            node |-> next,
            fix |-> verifyForAlwaysFix(t, prev, next)]>>

\* PaddingTypes[type].verify(context, prevNode, nextNode, paddingLines)
PaddingTypes(type, t, prev, next, paddingLines) ==
    CASE type = "always" -> verifyForAlways(t, prev, next, paddingLines)
      [] type = "any" -> verifyForAny
      [] type = "never" -> verifyForNever(t, next, paddingLines)

STATEMENT_LIST_PARENTS == {"Program", "BlockStatement", "StaticBlock", "SwitchCase"}

validParent(node) ==
    LET parentType == node.parent.type
    IN  parentType \in STATEMENT_LIST_PARENTS \/ parentType = "SwitchStatement"

\* the reports of verify(node) with prev the current scope's prevNode
verifyReports(opts, t, prev, node) ==
    PaddingTypes(getPaddingType(configureList(opts), t, prev, node),
                 t, prev, node, getPaddingLineSequences(t, prev, node))

\* what one call of verify computed for a pair
verifyLog(opts, t, prev, node) ==
    [prev |-> prev,
     next |-> node,
     type |-> getPaddingType(configureList(opts), t, prev, node),
     paddingLines |-> getPaddingLineSequences(t, prev, node)]

CurrentScope == scopeInfo[Len(scopeInfo)]

NextPass ==
    CASE pc = "created" -> "linted"
      [] pc = "fixed" -> "relinted"
      [] OTHER -> pc

PendingListeners == IF events = <<>> THEN {} ELSE {Head(events).listener}

\* the listener call ":statement" on a node
Call(node) == [listener |-> ":statement", node |-> node]

\* Variant of verifyScopeInfo: the node is recorded whatever its parent is.
verifyScopeInfoAnyParent(node) ==
    [scopeInfo EXCEPT ![Len(scopeInfo)].prevNode = <<node>>]

\* the scope stack after verify(node)
verifyScopeInfo(node) ==
    IF ~validParent(node)
    THEN scopeInfo
    ELSE [scopeInfo EXCEPT ![Len(scopeInfo)].prevNode = <<node>>]

\* whether verify(node) gets as far as its check of the pair
verifyChecks(node) == validParent(node) /\ CurrentScope.prevNode # <<>>

\* context.report's list after verify(node)
verifyReported(node) ==
    IF verifyChecks(node)
    THEN reports \o verifyReports(options, text, CurrentScope.prevNode[1], node)
    ELSE reports

\* the log after verify(node)
verifyLogged(node) ==
    IF verifyChecks(node)
    THEN Append(checked, verifyLog(options, text, CurrentScope.prevNode[1], node))
    ELSE checked

\* Variant of enterScopeInfo: the new scope starts with the upper scope's
\* prevNode.
enterScopeKeepsPrevNode(stack) ==
    Append(stack, IF stack = <<>> THEN [prevNode |-> <<>>] ELSE stack[Len(stack)])

\* scopeInfo after enterScope()
enterScopeInfo(stack) == Append(stack, [prevNode |-> <<>>])

\* scopeInfo after exitScope()
exitScopeInfo(stack) == SubSeq(stack, 1, Len(stack) - 1)

(***************************************************************************)
(* The listeners.  verify(node) is the ":statement" listener, on the node  *)
(* the traversal has reached.                                              *)
(***************************************************************************)
verify ==
    /\ rule = "statements"
    /\ ":statement" \in PendingListeners
    /\ LET node == Head(events).node
       IN  /\ reports' = verifyReported(node)
           /\ checked' = verifyLogged(node)
           /\ scopeInfo' = verifyScopeInfo(node)
           /\ nextNode' = node
    /\ events' = Tail(events)
    /\ pc' = NextPass
    /\ UNCHANGED <<rule, text, original, options, objectNode, applied>>

enterScope ==
    /\ rule = "statements"
    /\ PendingListeners \cap {"BlockStatement", "Program", "StaticBlock",
                              "SwitchStatement"} # {}
    /\ scopeInfo' = enterScopeInfo(scopeInfo)
    /\ nextNode' = Head(events).node
    /\ events' = Tail(events)
    /\ UNCHANGED <<rule, text, original, options, objectNode, reports, checked,
                   applied, pc>>

exitScope ==
    /\ rule = "statements"
    /\ PendingListeners \cap {"BlockStatement:exit", "Program:exit",
                              "StaticBlock:exit", "SwitchCase:exit",
                              "SwitchStatement:exit"} # {}
    /\ scopeInfo' = exitScopeInfo(scopeInfo)
    /\ nextNode' = Head(events).node
    /\ events' = Tail(events)
    /\ UNCHANGED <<rule, text, original, options, objectNode, reports, checked,
                   applied, pc>>

verifyThenEnterScope ==
    /\ rule = "statements"
    /\ "SwitchCase" \in PendingListeners
    /\ LET node == Head(events).node
       IN  /\ reports' = verifyReported(node)
           /\ checked' = verifyLogged(node)
           /\ scopeInfo' = enterScopeInfo(verifyScopeInfo(node))
           /\ nextNode' = node
    /\ events' = Tail(events)
    /\ pc' = NextPass
    /\ UNCHANGED <<rule, text, original, options, objectNode, applied>>

(***************************************************************************)
(* The linter applies the edit of one report and lints the new text, with  *)
(* an empty list of reports; the second pass is taken up where the first   *)
(* one stood, at the same pair.                                            *)
(***************************************************************************)
applyStatementFix ==
    /\ rule = "statements"
    /\ pc = "linted"
    /\ events = <<>>
    /\ reports # <<>>
    /\ reports[1].fix # null
    /\ text' = ApplyEdit(text, reports[1].fix)
    /\ applied' = <<reports[1]>>
    /\ scopeInfo' = [scopeInfo EXCEPT
                        ![Len(scopeInfo)].prevNode = <<checked[1].prev>>]
    /\ events' = <<Call(nextNode)>>
    /\ reports' = <<>>
    /\ checked' = <<>>
    /\ pc' = "fixed"
    /\ UNCHANGED <<rule, original, options, nextNode, objectNode>>

(***************************************************************************)
(* The texts and options the statements rule is run on.                    *)
(***************************************************************************)
FillAtoms == {"nl", "sp", "cblock", "cline", "cmulti"}

SeqsUpTo(S, n) == UNION {[1..k -> S] : k \in 0..n}

Count(f, S) == Cardinality({k \in 1..Len(f) : f[k] \in S})

\* a line comment runs to the end of its line
LineCommentsEnd(f) ==
    \A k \in 1..Len(f) : f[k] = "cline" => (k < Len(f) /\ f[k + 1] = "nl")

\* the runs of white space and comments between two statements
Fills ==
    {f \in SeqsUpTo(FillAtoms, MaxFill) :
        /\ LineCommentsEnd(f)
        /\ Count(f, {"cblock", "cline", "cmulti"}) <= MaxComments
        /\ Count(f, {"sp"}) <= MaxSpaces}

\* the runs between a statement's last token and its semicolon
InnerFills ==
    {<<>>, <<"nl">>, <<"nl", "nl">>, <<"cmulti">>, <<"cblock", "nl">>,
     <<"nl", "cblock">>}

NoExpression == [type |-> "null", value |-> "null", first |-> 0, last |-> 0]

\* a parent of the given type whose own parent and statement list are not read
Parent(type) == [type |-> type, parent |-> [type |-> "null"], body |-> <<>>]

Statement(type, first, last, kw, init, parent) ==
    [type |-> type, first |-> first, last |-> last, kw |-> kw,
     init |-> init, parent |-> Parent(parent), body |-> <<>>,
     expression |-> NoExpression]

ExpressionStatement(first, last, parent) ==
    Statement("ExpressionStatement", first, last, "id", "null", parent)

\* x <fill> y
DocsPlain ==
    {[text |-> <<"tok">> \o f \o <<"tok">>,
      scopes |-> <<[prevNode |-> <<ExpressionStatement(1, 1, "Program")>>]>>,
      next |-> ExpressionStatement(2, 2, "Program")] : f \in Fills}

\* x <inner> ; <fill> y
DocsSemi ==
    {[text |-> <<"tok">> \o g \o <<"semi">> \o f \o <<"tok">>,
      scopes |-> <<[prevNode |-> <<ExpressionStatement(1, 2, "Program")>>]>>,
      next |-> ExpressionStatement(3, 3, "Program")] :
        g \in InnerFills, f \in Fills}

\* { <inner> ; <fill> y }
DocsEmpty ==
    {[text |-> <<"lbrace">> \o g \o <<"semi">> \o f \o <<"tok", "rbrace">>,
      scopes |-> <<[prevNode |->
                      <<Statement("BlockStatement", 1, 4, "{", "null", "Program")>>],
                   [prevNode |->
                      <<Statement("EmptyStatement", 2, 2, ";", "null",
                                  "BlockStatement")>>]>>,
      next |-> ExpressionStatement(3, 3, "BlockStatement")] :
        g \in InnerFills, f \in Fills}

StatementDocs == DocsPlain \cup DocsSemi \cup DocsEmpty

Selector(name) == [isArray |-> FALSE, names |-> <<name>>]

ArraySelector(names) == [isArray |-> TRUE, names |-> names]

Configure(prev, next, blankLine) ==
    [prev |-> prev, next |-> next, blankLine |-> blankLine]

StatementOptions ==
    {<<>>,
     <<Configure(Selector("*"), Selector("*"), "never")>>,
     <<Configure(Selector("*"), Selector("*"), "always")>>}

NoObject == [properties |-> <<>>]

InitStatements ==
    /\ rule = "statements"
    /\ \E d \in StatementDocs :
           /\ text = d.text
           /\ original = d.text
           /\ scopeInfo = d.scopes
           /\ events = <<Call(d.next)>>
           /\ nextNode = d.next
    /\ options \in StatementOptions
    /\ objectNode = NoObject
    /\ reports = <<>>
    /\ checked = <<>>
    /\ applied = <<>>
    /\ pc = "created"

NextStatements == verify \/ applyStatementFix

SpecStatements == InitStatements /\ [][NextStatements]_vars

(***************************************************************************)
(* util.js: isPaddingBetweenTokens                                         *)
(***************************************************************************)
RECURSIVE SumOfCommentLines(_, _, _, _)
\* the for loop over the comments, from comment i on
SumOfCommentLines(t, comments, i, prevCommentLineNum) ==
    IF i > Len(comments) THEN 0
    ELSE LET commentLinesOfThisComment ==
                 EndLine(t, comments[i]) - StartLine(t, comments[i]) + 1
             duplicated ==
                 IF prevCommentLineNum = StartLine(t, comments[i]) THEN 1 ELSE 0
         IN  commentLinesOfThisComment - duplicated
             + SumOfCommentLines(t, comments, i + 1, EndLine(t, comments[i]))

isPaddingBetweenTokens(t, first, second) ==
    LET comments == getCommentsBefore(t, second)
        len == Len(comments)
        linesBetweenFstAndSnd == StartLine(t, second) - EndLine(t, first) - 1
    IN  IF len = 0
        THEN linesBetweenFstAndSnd >= 1
        ELSE LET sumOfCommentLines ==
                     SumOfCommentLines(t, comments, 1, -1)
                     - (IF EndLine(t, first) = StartLine(t, comments[1])
                        THEN 1 ELSE 0)
                     - (IF EndLine(t, comments[len]) = StartLine(t, second)
                        THEN 1 ELSE 0)
             IN  linesBetweenFstAndSnd - sumOfCommentLines >= 1

(***************************************************************************)
(* objectsRule.create.  An ObjectExpression is [properties]; a property is *)
(* [first, last], the ordinals of its first and last token.  Boundary 0 is *)
(* the one before the first property, boundary i the one after property i. *)
(***************************************************************************)
config(opts) == IF Len(opts) >= 1 THEN opts[1] ELSE "never"

reportTwoTokensFix(t, token1, token2, position, isPadded) ==
    LET tokenAfterLastToken == getTokenAfter(t, token1, FALSE)
        tokenToLineBreakAfter ==
            IF t[tokenAfterLastToken] = "comma"
            THEN tokenAfterLastToken
            ELSE token1
    IN  IF isPadded /\ position = "normal"
        THEN replaceTextRange(RangeEnd(token1), RangeStart(token2),
                              <<"comma", "nl">>)
        ELSE IF isPadded /\ position = "first"
        THEN replaceTextRange(RangeEnd(token1), RangeStart(token2), <<"nl">>)
        ELSE insertTextAfter(tokenToLineBreakAfter, <<"nl">>)

\* the reports of one call of reportTwoTokens
reportTwoTokens(opts, t, token1, token2, node, position, boundary) ==
    LET isPadded == isPaddingBetweenTokens(t, token1, token2)
        messageId == IF isPadded THEN "never" ELSE "always"
    IN  IF \/ config(opts) = "always" /\ ~isPadded
           \/ config(opts) = "never" /\ isPadded
        THEN <<[messageId |-> messageId,
                node |-> node,
                fix |-> reportTwoTokensFix(t, token1, token2, position, isPadded),
                boundary |-> boundary]>>
        ELSE <<>>

\* the token pair objectExpression hands to reportTwoTokens at a boundary
BoundaryTokens(t, node, boundary) ==
    LET properties == node.properties
        n == Len(properties)
    IN  IF boundary = 0
        THEN <<getTokenBefore(t, getFirstToken(t, properties[1])),
               getFirstToken(t, properties[1])>>
        ELSE IF boundary < n
        THEN <<getLastToken(t, properties[boundary]),
               getFirstToken(t, properties[boundary + 1])>>
        ELSE <<getLastToken(t, properties[n]),
               getTokenAfter(t, getLastToken(t, properties[n]), FALSE)>>

BoundaryNode(node, boundary) ==
    IF boundary = 0 THEN node.properties[1]
    ELSE IF boundary < Len(node.properties) THEN node.properties[boundary + 1]
    ELSE node.properties[Len(node.properties)]

BoundaryPosition(boundary) == IF boundary = 0 THEN "first" ELSE "normal"

RECURSIVE objectExpressionFrom(_, _, _, _)
\* the calls of reportTwoTokens from boundary b on, in the order of the code:
\* first, each consecutive pair, after the last
objectExpressionFrom(opts, t, node, b) ==
    IF b > Len(node.properties) THEN <<>>
    ELSE reportTwoTokens(opts, t, BoundaryTokens(t, node, b)[1],
                         BoundaryTokens(t, node, b)[2],
                         BoundaryNode(node, b), BoundaryPosition(b), b)
         \o objectExpressionFrom(opts, t, node, b + 1)

\* Both try blocks throw on properties[0] and properties[-1] of an empty
\* list and catch it; the loop does not run.
objectExpressionReports(opts, t, node) ==
    IF Len(node.properties) = 0
    THEN <<>>
    ELSE objectExpressionFrom(opts, t, node, 0)

\* what each call of reportTwoTokens was given and what it found
objectExpressionLog(t, node) ==
    IF Len(node.properties) = 0
    THEN <<>>
    ELSE [k \in 1..(Len(node.properties) + 1) |->
             [boundary |-> k - 1,
              token1 |-> BoundaryTokens(t, node, k - 1)[1],
              token2 |-> BoundaryTokens(t, node, k - 1)[2],
              isPadded |-> isPaddingBetweenTokens(t,
                               BoundaryTokens(t, node, k - 1)[1],
                               BoundaryTokens(t, node, k - 1)[2])]]

(***************************************************************************)
(* The "ObjectExpression" listener.                                        *)
(***************************************************************************)
objectExpression ==
    /\ rule = "objects"
    /\ pc \in {"created", "fixed"}
    /\ reports' = objectExpressionReports(options, text, objectNode)
    /\ checked' = objectExpressionLog(text, objectNode)
    /\ pc' = NextPass
    /\ UNCHANGED <<rule, text, original, options, scopeInfo, events, nextNode,
                   objectNode, applied>>

\* The linter applies the edit of one report and lints the new text.
applyObjectFix ==
    /\ rule = "objects"
    /\ pc = "linted"
    /\ \E k \in 1..Len(reports) :
           /\ text' = ApplyEdit(text, reports[k].fix)
           /\ applied' = <<reports[k]>>
    /\ pc' = "fixed"
    /\ UNCHANGED <<rule, original, options, scopeInfo, events, nextNode, objectNode,
                   reports, checked>>

(***************************************************************************)
(* The object literals and options the objects rule is run on.             *)
(***************************************************************************)
ObjectFillAtoms == {"nl", "cblock", "cmulti"}

\* the ways to cut a run of n atoms into slots: nondecreasing cut points
Cuts(n, slots) ==
    {c \in [1..(slots - 1) -> 0..n] :
        \A k \in 1..(slots - 2) : c[k] <= c[k + 1]}

CutStart(c, k) == IF k = 1 THEN 0 ELSE c[k - 1]

CutEnd(c, k, n) == IF k > Len(c) THEN n ELSE c[k]

RECURSIVE Interleave(_, _, _, _)
\* groups[k] followed by the k-th slot of the run f, and so on
Interleave(groups, f, c, k) ==
    IF k = Len(groups) THEN groups[k]
    ELSE groups[k] \o Slice(f, CutStart(c, k), CutEnd(c, k, Len(f)))
         \o Interleave(groups, f, c, k + 1)

Property == <<"tok", "tok">>

\* the token groups of an object literal and its properties
ObjectShapes ==
    {[groups |-> <<<<"lbrace">>, <<"rbrace">>>>,
      properties |-> <<>>],
     [groups |-> <<<<"lbrace">>, Property, <<"rbrace">>>>,
      properties |-> <<[first |-> 2, last |-> 3]>>],
     [groups |-> <<<<"lbrace">>, Property, <<"comma">>, <<"rbrace">>>>,
      properties |-> <<[first |-> 2, last |-> 3]>>],
     [groups |-> <<<<"lbrace">>, Property, <<"comma">>, Property, <<"rbrace">>>>,
      properties |-> <<[first |-> 2, last |-> 3], [first |-> 5, last |-> 6]>>],
     [groups |-> <<<<"lbrace">>, Property, <<"comma">>, Property, <<"comma">>,
                   <<"rbrace">>>>,
      properties |-> <<[first |-> 2, last |-> 3], [first |-> 5, last |-> 6]>>]}

ObjectDocs ==
    UNION {UNION {{[text |-> Interleave(s.groups, f, c, 1),
                    properties |-> s.properties] :
                       c \in Cuts(Len(f), Len(s.groups) - 1)} :
                  f \in SeqsUpTo(ObjectFillAtoms, MaxObjFill)} :
           s \in ObjectShapes}

ObjectOptions == {<<>>, <<"always">>, <<"never">>}

InitObjects ==
    /\ rule = "objects"
    /\ \E d \in ObjectDocs :
           /\ text = d.text
           /\ original = d.text
           /\ objectNode = [properties |-> d.properties]
    /\ options \in ObjectOptions
    /\ scopeInfo = <<>>
    /\ events = <<>>
    /\ nextNode = NoObject
    /\ reports = <<>>
    /\ checked = <<>>
    /\ applied = <<>>
    /\ pc = "created"

NextObjects == objectExpression \/ applyObjectFix

SpecObjects == InitObjects /\ [][NextObjects]_vars

(***************************************************************************)
(* The resolver specification: one text, many configuration lists and      *)
(* statement kinds.                                                        *)
(***************************************************************************)
Declaration(first, kw, init) ==
    Statement("VariableDeclaration", first, first, kw, init, "Program")

\* label: for (;;) {}
LabeledFor(first) ==
    [type |-> "LabeledStatement", first |-> first, last |-> first,
     kw |-> "label", init |-> "null", parent |-> Parent("Program"),
     body |-> <<Statement("ForStatement", first, first, "for", "null",
                          "LabeledStatement")>>,
     expression |-> NoExpression]

ResolvePrevNodes ==
    {Declaration(1, "const", "ArrowFunctionExpression"),
     Declaration(1, "var", "null"),
     LabeledFor(1)}

ResolveNextNodes ==
    {Declaration(2, "var", "Literal"),
     Declaration(2, "const", "ArrowFunctionExpression")}

ResolvePrevSelectors ==
    {Selector("*"), Selector("arrow"), ArraySelector(<<"var", "for">>)}

ResolveNextSelectors == {Selector("*"), Selector("var")}

ResolveRules ==
    {Configure(p, n, b) : p \in ResolvePrevSelectors,
                          n \in ResolveNextSelectors,
                          b \in {"always", "never", "any"}}

InitResolve ==
    /\ rule = "statements"
    /\ text = <<"tok", "nl", "nl", "tok">>
    /\ original = text
    /\ \E prev \in ResolvePrevNodes : scopeInfo = <<[prevNode |-> <<prev>>]>>
    /\ nextNode \in ResolveNextNodes
    /\ events = <<Call(nextNode)>>
    /\ options \in SeqsUpTo(ResolveRules, MaxRules)
    /\ objectNode = NoObject
    /\ reports = <<>>
    /\ checked = <<>>
    /\ applied = <<>>
    /\ pc = "created"

SpecResolve == InitResolve /\ [][NextStatements]_vars

(***************************************************************************)
(* The classifier specification: statement lists in a Program, a function  *)
(* body and a plain block, and one configuration entry whose selectors     *)
(* name the categories under test.  A kind of statement is                 *)
(*   [type, kw, init, tokens, value, at]: the atoms of the statement, and  *)
(* for an ExpressionStatement the type of its expression's value and the   *)
(* place of the expression's only token among the atoms ("call" stands     *)
(* for an expression that is no literal).                                  *)
(***************************************************************************)
Kind(type, kw, init, tokens, value, at) ==
    [type |-> type, kw |-> kw, init |-> init, tokens |-> tokens,
     value |-> value, at |-> at]

\* "a"   "a";   ("a")   1   f()   if (x) y
ExpressionKinds ==
    {Kind("ExpressionStatement", "id", "null", <<"tok">>, "string", 1),
     Kind("ExpressionStatement", "id", "null", <<"tok", "semi">>, "string", 1),
     Kind("ExpressionStatement", "(", "null", <<"lparen", "tok", "rparen">>,
          "string", 2),
     Kind("ExpressionStatement", "id", "null", <<"tok">>, "number", 1),
     Kind("ExpressionStatement", "id", "null", <<"tok">>, "call", 1),
     Kind("IfStatement", "if", "null", <<"tok">>, "null", 0)}

\* const, let and var declarations on one line and on two, whose first
\* declarator has no initialiser, a literal or an arrow function
DeclarationKinds ==
    {kind \in {Kind("VariableDeclaration", kw, init,
                    <<"tok">> \o inner \o <<"tok">>, "null", 0) :
                   kw \in {"const", "let", "var"},
                   init \in {"null", "Literal", "ArrowFunctionExpression"},
                   inner \in {<<"sp">>, <<"nl">>}} :
        kind.kw = "const" => kind.init # "null"}

\* a statement list lies in a container: the type of the list's parent and
\* of the parent's parent, the atoms before and after the list, and the
\* scopes below the list's own, each holding the statement verify saw last
Container(type, parent, before, after, scopes) ==
    [type |-> type, parent |-> parent, before |-> before, after |-> after,
     scopes |-> scopes]

Containers ==
    {Container("Program", "null", <<>>, <<>>, <<>>),
     Container("BlockStatement", "FunctionDeclaration",
               <<"tok", "lbrace", "nl">>, <<"nl", "rbrace">>,
               <<[prevNode |-> <<Statement("FunctionDeclaration", 1, 1,
                                           "function", "null", "Program")>>]>>),
     Container("BlockStatement", "Program",
               <<"lbrace", "nl">>, <<"nl", "rbrace">>,
               <<[prevNode |-> <<Statement("BlockStatement", 1, 1, "{",
                                           "null", "Program")>>]>>)}

RECURSIVE ListText(_, _)
\* the statements from the k-th on, one to a line
ListText(kinds, k) ==
    IF k > Len(kinds) THEN <<>>
    ELSE IF k = Len(kinds) THEN kinds[k].tokens
    ELSE kinds[k].tokens \o <<"nl">> \o ListText(kinds, k + 1)

RECURSIVE TokensBefore(_, _)
\* the number of tokens of the statements before the k-th
TokensBefore(kinds, k) ==
    IF k <= 1 THEN 0
    ELSE TokensBefore(kinds, k - 1) + Count(kinds[k - 1].tokens,
             {"tok", "semi", "lparen", "rparen"})

\* the k-th statement of the list, with the given parent
ListNode(c, kinds, k, parent) ==
    LET kind == kinds[k]
        first == Count(c.before, {"tok", "lbrace"}) + TokensBefore(kinds, k) + 1
        last == Count(c.before, {"tok", "lbrace"}) + TokensBefore(kinds, k + 1)
    IN  [type |-> kind.type, first |-> first, last |-> last, kw |-> kind.kw,
         init |-> kind.init, parent |-> parent, body |-> <<>>,
         expression |->
             IF kind.type # "ExpressionStatement" THEN NoExpression
             ELSE [type |-> IF kind.value = "call" THEN "CallExpression"
                            ELSE "Literal",
                   value |-> kind.value,
                   first |-> first + kind.at - 1,
                   last |-> first + kind.at - 1]]

\* node.parent of the statements of the list
ListParent(c, kinds) ==
    LET bare == [type |-> c.type, parent |-> [type |-> c.parent], body |-> <<>>]
    IN  [bare EXCEPT !.body = [k \in 1..Len(kinds) |->
                                  ListNode(c, kinds, k, bare)]]

\* the list in its container, the traversal standing before statement i + 1
ListDoc(c, kinds, i) ==
    [text |-> c.before \o ListText(kinds, 1) \o c.after,
     scopes |-> c.scopes \o
         <<[prevNode |-> <<ListNode(c, kinds, i, ListParent(c, kinds))>>]>>,
     next |-> ListNode(c, kinds, i + 1, ListParent(c, kinds))]

ListsOf(S, n) == UNION {[1..k -> S] : k \in 2..n}

DirectiveDocs ==
    UNION {{ListDoc(c, kinds, i) : i \in 1..(Len(kinds) - 1)} :
              c \in Containers, kinds \in ListsOf(ExpressionKinds, MaxStatements)}

DirectiveOptions ==
    {<<Configure(Selector(a), Selector(b), "always")>> :
        a \in {"directive", "expression", "*"},
        b \in {"directive", "expression", "*"}}

DeclarationDocs ==
    {ListDoc(c, <<kind, Kind("ExpressionStatement", "id", "null", <<"tok">>,
                             "call", 1)>>, 1) :
        c \in {d \in Containers : d.type = "Program"},
        kind \in DeclarationKinds \cup ExpressionKinds}

DeclarationOptions ==
    {<<Configure(Selector(a), Selector("*"), "always")>> :
        a \in {"const", "let", "var", "arrow", "singleline-const",
               "multiline-const", "singleline-let", "multiline-let", "*"}}

TypeInputs ==
    (DirectiveDocs \X DirectiveOptions)
        \cup (DeclarationDocs \X DeclarationOptions)

InitTypes ==
    /\ rule = "statements"
    /\ \E input \in TypeInputs :
           /\ text = input[1].text
           /\ original = input[1].text
           /\ scopeInfo = input[1].scopes
           /\ events = <<Call(input[1].next)>>
           /\ nextNode = input[1].next
           /\ options = input[2]
    /\ objectNode = NoObject
    /\ reports = <<>>
    /\ checked = <<>>
    /\ applied = <<>>
    /\ pc = "created"

SpecTypes == InitTypes /\ [][NextStatements]_vars

(***************************************************************************)
(* The traversal specification: whole trees, walked from Program to        *)
(* Program:exit.  A tree is [type, kids]; the kids of a Program, a         *)
(* BlockStatement, a StaticBlock and a SwitchCase are its statement list,  *)
(* those of a SwitchStatement its cases, that of an IfStatement its        *)
(* consequent, that of a FunctionDeclaration its body and that of a        *)
(* ClassDeclaration the StaticBlock of its ClassBody.  The linter calls    *)
(* the listeners of a node in the order ":statement", then the node type.  *)
(***************************************************************************)
Tree(type, kids) == [type |-> type, kids |-> kids]

Leaf == Tree("ExpressionStatement", <<>>)

LeafLists == {[k \in 1..n |-> Leaf] : n \in 0..MaxBody}

\* the i-th case of a switch: two statements in the odd cases, none in the
\* even ones
CaseTree(i) == Tree("SwitchCase", IF i % 2 = 1 THEN <<Leaf, Leaf>> ELSE <<>>)

TreeStatements ==
    {Leaf}
    \cup {Tree("BlockStatement", l) : l \in LeafLists}
    \cup {Tree("IfStatement", <<s>>) :
             s \in {Leaf, Tree("BlockStatement", <<Leaf, Leaf>>)}}
    \cup {Tree("FunctionDeclaration", <<Tree("BlockStatement", l)>>) :
             l \in LeafLists}
    \cup {Tree("SwitchStatement", [i \in 1..n |-> CaseTree(i)]) :
             n \in 0..MaxBody}
    \cup {Tree("ClassDeclaration", <<Tree("StaticBlock", l)>>) :
             l \in LeafLists}

\* a Program of up to MaxBody statements, and a Program whose second of
\* three statements is a block of up to MaxBody statements
Programs ==
    {Tree("Program", l) : l \in SeqsUpTo(TreeStatements, MaxBody)}
    \cup {Tree("Program", <<Leaf, Tree("BlockStatement", l), Leaf>>) :
             l \in SeqsUpTo(TreeStatements, MaxBody)}

HoldsList(type) ==
    type \in {"Program", "BlockStatement", "StaticBlock", "SwitchCase",
              "SwitchStatement"}

OpenTokens(type) ==
    CASE type = "Program" -> <<>>
      [] type = "BlockStatement" -> <<"lbrace">>
      [] type \in {"SwitchStatement", "ClassDeclaration", "StaticBlock"} ->
            <<"tok", "lbrace">>
      [] OTHER -> <<"tok">>

CloseTokens(type) ==
    IF type \in {"BlockStatement", "SwitchStatement", "ClassDeclaration",
                 "StaticBlock"}
    THEN <<"rbrace">> ELSE <<>>

Keyword(type) ==
    CASE type = "ExpressionStatement" -> "id"
      [] type = "BlockStatement" -> "{"
      [] type = "IfStatement" -> "if"
      [] type = "FunctionDeclaration" -> "function"
      [] type = "SwitchStatement" -> "switch"
      [] type = "SwitchCase" -> "case"
      [] type = "ClassDeclaration" -> "class"
      [] type = "StaticBlock" -> "static"
      [] OTHER -> "null"

RECURSIVE TreeTokens(_), KidsTokens(_, _)
\* the number of tokens of a tree
TreeTokens(tree) ==
    Len(OpenTokens(tree.type)) + KidsTokens(tree.kids, Len(tree.kids))
        + Len(CloseTokens(tree.type))

\* the number of tokens of the first k kids
KidsTokens(kids, k) ==
    IF k = 0 THEN 0 ELSE KidsTokens(kids, k - 1) + TreeTokens(kids[k])

\* the white space before the k-th statement of a list
Separator(gaps, k) == IF k % 2 = 0 THEN gaps.even ELSE gaps.odd

RECURSIVE TreeText(_, _), KidsText(_, _, _)
TreeText(tree, gaps) ==
    OpenTokens(tree.type) \o KidsText(tree, gaps, 1)
        \o (IF CloseTokens(tree.type) = <<>> THEN <<>>
            ELSE <<"nl">> \o CloseTokens(tree.type))

KidsText(tree, gaps, k) ==
    IF k > Len(tree.kids) THEN <<>>
    ELSE (IF HoldsList(tree.type) THEN Separator(gaps, k) ELSE <<"sp">>)
         \o TreeText(tree.kids[k], gaps) \o KidsText(tree, gaps, k + 1)

\* ordinal of the first token of the k-th kid of a tree that starts at first
KidFirst(tree, first, k) ==
    first + Len(OpenTokens(tree.type)) + KidsTokens(tree.kids, k - 1)

\* the node of a tree, without its child statements
BareNode(tree, first, parent) ==
    [type |-> tree.type, first |-> first, last |-> first + TreeTokens(tree) - 1,
     kw |-> Keyword(tree.type), init |-> "null", parent |-> parent,
     body |-> <<>>, expression |-> NoExpression]

\* node.parent of the kids of a tree
KidParent(tree, first, parent) ==
    LET bare == [type |-> IF tree.type = "ClassDeclaration" THEN "ClassBody"
                          ELSE tree.type,
                 parent |-> [type |-> parent.type], body |-> <<>>]
    IN  IF HoldsList(tree.type)
        THEN [bare EXCEPT !.body =
                 [k \in 1..Len(tree.kids) |->
                     BareNode(tree.kids[k], KidFirst(tree, first, k), bare)]]
        ELSE bare

RECURSIVE TreeNode(_, _, _)
TreeNode(tree, first, parent) ==
    [BareNode(tree, first, parent) EXCEPT !.body =
        [k \in 1..Len(tree.kids) |->
            TreeNode(tree.kids[k], KidFirst(tree, first, k),
                     KidParent(tree, first, parent))]]

\* the listeners of the rule that the linter calls when it enters a node
EnterListeners(type) ==
    CASE type = "Program" -> <<"Program">>
      [] type = "BlockStatement" -> <<":statement", "BlockStatement">>
      [] type = "SwitchStatement" -> <<":statement", "SwitchStatement">>
      [] type = "SwitchCase" -> <<"SwitchCase">>
      [] type = "StaticBlock" -> <<"StaticBlock">>
      [] OTHER -> <<":statement">>

\* and when it leaves it
ExitListeners(type) ==
    IF type \in {"Program", "BlockStatement", "SwitchStatement", "SwitchCase",
                 "StaticBlock"}
    THEN <<type \o ":exit">> ELSE <<>>

Calls(listeners, node) ==
    [k \in 1..Len(listeners) |-> [listener |-> listeners[k], node |-> node]]

RECURSIVE Traversal(_), KidsTraversal(_, _)
\* the listener calls of the traversal of a node
Traversal(node) ==
    Calls(EnterListeners(node.type), node) \o KidsTraversal(node, 1)
        \o Calls(ExitListeners(node.type), node)

KidsTraversal(node, k) ==
    IF k > Len(node.body) THEN <<>>
    ELSE Traversal(node.body[k]) \o KidsTraversal(node, k + 1)

ProgramNode(tree) == TreeNode(tree, 1, Parent("null"))

TraverseGaps == [odd : {<<"nl">>, <<"nl", "nl">>}, even : {<<"nl">>, <<"nl", "nl">>}]

TraverseOptions ==
    {<<Configure(Selector("*"), Selector("*"), "never")>>,
     <<Configure(Selector("*"), Selector("*"), "always")>>}

InitTraverse ==
    /\ rule = "statements"
    /\ \E tree \in Programs, gaps \in TraverseGaps :
           /\ text = TreeText(tree, gaps)
           /\ events = Traversal(ProgramNode(tree))
           /\ nextNode = ProgramNode(tree)
    /\ original = text
    /\ options \in TraverseOptions
    /\ scopeInfo = <<>>
    /\ objectNode = NoObject
    /\ reports = <<>>
    /\ checked = <<>>
    /\ applied = <<>>
    /\ pc = "traversing"

NextTraverse == verify \/ enterScope \/ exitScope \/ verifyThenEnterScope

SpecTraverse == InitTraverse /\ [][NextTraverse]_vars

(***************************************************************************)
(* What the claims speak of.                                               *)
(***************************************************************************)
\* a selector matches a node iff one of its names does
SelectorMatches(t, node, selector) ==
    \E k \in 1..Len(selector.names) :
        StatementTypes(selector.names[k], t, Unlabel(node))

\* the indices of the rules that match the pair
MatchingRules(list, t, prev, next) ==
    {i \in 1..Len(list) :
        /\ SelectorMatches(t, prev, list[i].prev)
        /\ SelectorMatches(t, next, list[i].next)}

Linted == pc \in {"linted", "relinted"} /\ checked # <<>>

\* a line is occupied when a token or a comment lies on it
Occupied(t, line) ==
    \E k \in 1..Len(t) :
        /\ Visible(t, k, TRUE)
        /\ StartLine(t, k) <= line
        /\ line <= EndLine(t, k)

\* a line strictly between the tokens i and j that nothing occupies
HasBlankLine(t, i, j) ==
    \E line \in (EndLine(t, i) + 1)..(StartLine(t, j) - 1) : ~Occupied(t, line)

\* the comments of a text, in order
CommentsOf(t) == SelectSeq(t, IsComment)

\* C1: getPaddingType returns the blankLine of the matching rule with the
\* highest index, and any when no rule matches (the empty list included).
C1_LastMatchWins ==
    (rule = "statements" /\ Linted) =>
        LET c == checked[1]
            m == MatchingRules(options, text, c.prev, c.next)
        IN  c.type = IF m = {} THEN "any" ELSE options[Max(m)].blankLine

\* C1 witness: two rules match the pair, they differ, and the later one won.
C1_Witness ==
    /\ rule = "statements"
    /\ pc = "linted"
    /\ checked # <<>>
    /\ LET c == checked[1]
           m == MatchingRules(options, text, c.prev, c.next)
       IN  /\ Cardinality(m) >= 2
           /\ options[Min(m)].blankLine # options[Max(m)].blankLine
           /\ c.type = options[Max(m)].blankLine
           /\ \E i \in m : options[i].prev.isArray

\* C2: with no configuration entries, every pair of adjacent statements that
\* has a blank line between them is reported as unexpectedBlankLine.
C2_DefaultDisallowsPadding ==
    (rule = "statements" /\ pc = "linted" /\ checked # <<>> /\ options = <<>>) =>
        LET c == checked[1]
        IN  HasBlankLine(text, getLastToken(text, c.prev),
                         getFirstToken(text, c.next))
                => /\ reports # <<>>
                   /\ reports[1].messageId = "unexpectedBlankLine"

\* C3: a report depends only on the resolved type and the number of gaps:
\* any never reports, never reports unexpectedBlankLine iff there is a gap,
\* always reports expectedBlankLine iff there is none; the report is
\* anchored at the next node of the pair.
C3_ReportByTypeAndGaps ==
    (rule = "statements" /\ Linted) =>
        LET c == checked[1]
            gaps == Len(c.paddingLines)
            expected ==
                CASE c.type = "any" -> "none"
                  [] c.type = "never" ->
                        IF gaps >= 1 THEN "unexpectedBlankLine" ELSE "none"
                  [] c.type = "always" ->
                        IF gaps = 0 THEN "expectedBlankLine" ELSE "none"
        IN  IF expected = "none"
            THEN reports = <<>>
            ELSE /\ Len(reports) = 1
                 /\ reports[1].messageId = expected
                 /\ reports[1].node = c.next

\* C3 witness: a never pair with a gap and an always pair without one exist;
\* this is the never pair, reported at the next node.
C3_Witness ==
    /\ rule = "statements"
    /\ pc = "linted"
    /\ checked # <<>>
    /\ checked[1].type = "never"
    /\ Len(checked[1].paddingLines) >= 1
    /\ reports # <<>>
    /\ reports[1].node = nextNode

\* C4: the never fix is an edit iff the pair has exactly one gap; with two
\* or more it is null, with one it replaces the range between the gap's two
\* tokens.
C4_NeverFixSingleGapOnly ==
    (rule = "statements" /\ Linted /\ reports # <<>>
        /\ reports[1].messageId = "unexpectedBlankLine") =>
        LET gaps == checked[1].paddingLines
        IN  /\ (reports[1].fix # null) <=> (Len(gaps) = 1)
            /\ Len(gaps) = 1 =>
                   reports[1].fix.range =
                       <<RangeEnd(gaps[1][1]), RangeStart(gaps[1][2])>>

\* C4 witness: a never report on a pair with two gaps, left without an edit.
C4_Witness ==
    /\ rule = "statements"
    /\ pc = "linted"
    /\ reports # <<>>
    /\ reports[1].messageId = "unexpectedBlankLine"
    /\ Len(checked[1].paddingLines) >= 2
    /\ reports[1].fix = null

AppliedIs(messageId) == applied # <<>> /\ applied[1].messageId = messageId

\* C5: after the always fix is applied, the scanner finds at least one gap
\* between the pair and the pair is not reported again.
C5_AlwaysFixIdempotent ==
    (rule = "statements" /\ pc = "relinted" /\ AppliedIs("expectedBlankLine")) =>
        /\ Len(checked[1].paddingLines) >= 1
        /\ reports = <<>>

\* C5 witness: the always fix was applied to a pair written in the
\* semicolon-less style and the pair was linted again.
C5_Witness ==
    /\ rule = "statements"
    /\ pc = "relinted"
    /\ AppliedIs("expectedBlankLine")
    /\ getActualLastToken(original, checked[1].prev)
           # getLastToken(original, checked[1].prev)

\* C6: after the never fix of a single gap is applied, the scanner finds no
\* gap between the pair and the pair is not reported again.
C6_NeverFixIdempotent ==
    (rule = "statements" /\ pc = "relinted" /\ AppliedIs("unexpectedBlankLine")) =>
        /\ Len(checked[1].paddingLines) = 0
        /\ reports = <<>>

\* C6 witness: the never fix collapsed a gap of three or more line breaks.
C6_Witness ==
    /\ rule = "statements"
    /\ pc = "relinted"
    /\ AppliedIs("unexpectedBlankLine")
    /\ Len(original) - Len(text) >= 2

\* The statement fixes leave the comments of the text alone.
StatementFixKeepsComments ==
    rule = "statements" => CommentsOf(text) = CommentsOf(original)

\* the tokens that bound the gap at a boundary of an object literal: the
\* opening brace and the first property, two consecutive properties, the
\* last property and the closing brace
GapTokens(t, node, boundary) ==
    LET properties == node.properties
        n == Len(properties)
    IN  IF boundary = 0
        THEN <<Min({j \in 1..Len(t) : t[j] = "lbrace"}),
               getFirstToken(t, properties[1])>>
        ELSE IF boundary < n
        THEN <<getLastToken(t, properties[boundary]),
               getFirstToken(t, properties[boundary + 1])>>
        ELSE <<getLastToken(t, properties[n]),
               Max({j \in 1..Len(t) : t[j] = "rbrace"})>>

ReportedAt(boundary) ==
    \E k \in 1..Len(reports) : reports[k].boundary = boundary

Disagree(policy, padded) ==
    \/ policy = "always" /\ ~padded
    \/ policy = "never" /\ padded

\* C7: the objects rule reports a boundary exactly when the policy and the
\* padded state of its gap disagree, and reports nothing for no properties.
C7_ReportsWhereGapDisagrees ==
    (rule = "objects" /\ pc = "linted") =>
        LET n == Len(objectNode.properties)
        IN  IF n = 0
            THEN reports = <<>>
            ELSE \A b \in 0..n :
                     ReportedAt(b) <=>
                         Disagree(config(options),
                                  HasBlankLine(text,
                                               GapTokens(text, objectNode, b)[1],
                                               GapTokens(text, objectNode, b)[2]))

\* C8: after the edit of a report is applied, the boundary it was reported
\* at is not reported again.
C8_ObjectFixIdempotent ==
    (rule = "objects" /\ pc = "relinted" /\ applied # <<>>) =>
        ~ReportedAt(applied[1].boundary)

\* C9: applying a fix of either rule leaves the comments of the text as
\* they were.
C9_FixesKeepComments ==
    pc \in {"fixed", "relinted"} =>
        \A kind \in {"cblock", "cline", "cmulti"} :
            Count(text, {kind}) = Count(original, {kind})

\* a line strictly between the tokens i and j that no comment between them
\* occupies
HasCommentFreeLine(t, i, j) ==
    \E line \in (EndLine(t, i) + 1)..(StartLine(t, j) - 1) :
        ~\E k \in (i + 1)..(j - 1) :
            /\ IsComment(t[k])
            /\ StartLine(t, k) <= line
            /\ line <= EndLine(t, k)

\* C10: isPaddingBetweenTokens is true iff some line strictly between the
\* two tokens is occupied by no comment lying between them.
C10_PaddedIffCommentFreeLine ==
    (rule = "objects" /\ pc \in {"linted", "relinted"}) =>
        \A k \in 1..Len(checked) :
            checked[k].isPadded <=>
                HasCommentFreeLine(text, checked[k].token1, checked[k].token2)

\* For two consecutive tokens isPaddingBetweenTokens does count every
\* comment between them.
PaddedIffCommentFreeLineWhenAdjacent ==
    (rule = "objects" /\ pc \in {"linted", "relinted"}) =>
        \A k \in 1..Len(checked) :
            getTokenBefore(text, checked[k].token2) = checked[k].token1 =>
                (checked[k].isPadded <=>
                    HasCommentFreeLine(text, checked[k].token1,
                                       checked[k].token2))

\* an expression statement that consists of a string literal alone, with
\* or without its semicolon
BareStringStatement(t, node) ==
    /\ node.type = "ExpressionStatement"
    /\ node.expression.type = "Literal"
    /\ node.expression.value = "string"
    /\ node.first = node.expression.first
    /\ \/ node.last = node.expression.last
       \/ /\ node.last = node.expression.last + 1
          /\ t[getLastToken(t, node)] = "semi"

\* the node is a statement of a Program or of a function's body
InPrologueBody(node) ==
    \/ node.parent.type = "Program"
    \/ /\ node.parent.type = "BlockStatement"
       /\ node.parent.parent.type \in
              {"FunctionDeclaration", "FunctionExpression",
               "ArrowFunctionExpression"}

\* the place of the node in its statement list
IndexInList(node) ==
    CHOOSE k \in 1..Len(node.parent.body) : SameNode(node.parent.body[k], node)

\* the two nodes of the pair the pass checked
CheckedNodes == {checked[1].prev, checked[1].next}

\* the one configuration entry matched the pair iff both selectors did
EntryApplied ==
    (checked[1].type = options[1].blankLine) <=>
        /\ SelectorMatches(text, checked[1].prev, options[1].prev)
        /\ SelectorMatches(text, checked[1].next, options[1].next)

\* C11: a statement of a Program or function body classifies as directive
\* iff it and every statement before it in the list is a bare string
\* literal statement; an expression statement classifies as exactly one of
\* directive and expression.
C11_DirectivePrologueIsPrefix ==
    (rule = "statements" /\ Linted /\ Len(options) = 1) =>
        /\ EntryApplied
        /\ \A node \in CheckedNodes :
               /\ InPrologueBody(node) =>
                      (StatementTypes("directive", text, node) <=>
                          \A j \in 1..IndexInList(node) :
                              BareStringStatement(text, node.parent.body[j]))
               /\ node.type = "ExpressionStatement" =>
                      (StatementTypes("directive", text, node)
                          # StatementTypes("expression", text, node))

\* C11 witness: a bare string literal statement of a function body, after a
\* statement that is no directive, was matched by the selector expression.
C11_Witness ==
    /\ rule = "statements"
    /\ pc = "linted"
    /\ checked # <<>>
    /\ Len(options) = 1
    /\ options[1].next = Selector("expression")
    /\ checked[1].type = "always"
    /\ nextNode.parent.type = "BlockStatement"
    /\ InPrologueBody(nextNode)
    /\ BareStringStatement(text, nextNode)
    /\ IndexInList(nextNode) = 3
    /\ BareStringStatement(text, nextNode.parent.body[1])
    /\ ~BareStringStatement(text, nextNode.parent.body[2])

\* the one configuration entry has the given category as its prev selector
\* and the pass has checked a pair against it
TestedAsPrev(names) ==
    /\ rule = "statements"
    /\ Linted
    /\ Len(options) = 1
    /\ \E name \in names : options[1].prev = Selector(name)
    /\ options[1].next = Selector("*")
    /\ options[1].blankLine = "always"

\* the tester of the prev selector returned true for the previous statement
TesterReturnedTrue == checked[1].type = "always"

\* C12: the const tester, and likewise the let tester, returns true only
\* for a statement whose first token is const.
C12_ConstTesterTestsKeyword ==
    TestedAsPrev({"const", "let"}) =>
        (TesterReturnedTrue => checked[1].prev.kw = "const")

C14_ConstFamily ==
    TestedAsPrev({"multiline-const", "singleline-const"}) =>
        (TesterReturnedTrue =>
            /\ StatementTypes("const", text, checked[1].prev)
            /\ StatementTypes("*", text, checked[1].prev))

NodeIs(a, b) == a.type = b.type /\ a.first = b.first /\ a.last = b.last

\* the parent types the claim lists
InStatementList(node) ==
    node.parent.type \in {"Program", "BlockStatement", "StaticBlock",
                          "SwitchCase", "SwitchStatement"}

\* the sibling right before the node in its parent's list, if any
PrecedingSibling(node) ==
    IF IndexInList(node) = 1 THEN <<>>
    ELSE <<node.parent.body[IndexInList(node) - 1]>>

\* prevNode holds the given sibling, or nothing when there is none
Holds(prevNode, sibling) ==
    IF sibling = <<>> THEN prevNode = <<>>
    ELSE prevNode # <<>> /\ NodeIs(prevNode[1], sibling[1])

RECURSIVE SiblingPairs(_), KidsPairs(_, _)
\* the adjacent sibling pairs of the statement lists of a tree, in source
\* order of their second statement
SiblingPairs(node) == KidsPairs(node, 1)

KidsPairs(node, k) ==
    IF k > Len(node.body) THEN <<>>
    ELSE (IF HoldsList(node.type) /\ k > 1
          THEN <<<<node.body[k - 1], node.body[k]>>>> ELSE <<>>)
         \o SiblingPairs(node.body[k]) \o KidsPairs(node, k + 1)

CheckedPairs == [i \in 1..Len(checked) |-> <<checked[i].prev, checked[i].next>>]

\* C15: when verify runs on a node of a statement list, the current scope's
\* prevNode is the sibling right before it (none for the first); a node
\* with another parent is never recorded or checked; and when the traversal
\* ends every adjacent sibling pair has been checked once, in source order.
C15_PrevNodeIsPrecedingSibling ==
    (rule = "statements" /\ pc = "traversing") =>
        /\ \A e \in {events[k] : k \in {1} \cap DOMAIN events} :
               (e.listener \in {":statement", "SwitchCase"}
                    /\ InStatementList(e.node)) =>
                   Holds(CurrentScope.prevNode, PrecedingSibling(e.node))
        /\ \A k \in 1..Len(scopeInfo) :
               scopeInfo[k].prevNode # <<>> =>
                   InStatementList(scopeInfo[k].prevNode[1])
        /\ \A i \in 1..Len(checked) :
               InStatementList(checked[i].prev) /\ InStatementList(checked[i].next)
        /\ events = <<>> => CheckedPairs = SiblingPairs(nextNode)

\* C15 witness: a traversal has ended in which an if statement with its own
\* child statement was the previous statement of a checked pair, and two
\* pairs were reported.
C15_Witness ==
    /\ rule = "statements"
    /\ pc = "traversing"
    /\ events = <<>>
    /\ Len(reports) >= 2
    /\ \E i \in 1..Len(checked) :
           /\ checked[i].prev.type = "IfStatement"
           /\ i < Len(checked)

\* the nodes whose scope is open, innermost first: their exit call is still
\* to be made and their enter call is not
OpenScopes ==
    SelectSeq(events, LAMBDA e :
        /\ e.listener \in {"Program:exit", "BlockStatement:exit",
                            "StaticBlock:exit", "SwitchStatement:exit",
                            "SwitchCase:exit"}
        /\ ~\E k \in 1..Len(events) :
               events[k].node = e.node /\ events[k].listener = e.node.type)

\* whether the traversal has entered the node
Entered(node) == ~\E k \in 1..Len(events) :
    events[k].node = node /\ events[k].listener \in {":statement", "SwitchCase"}

\* the last statement of the node's own list that the traversal has entered
LastEntered(node) ==
    LET S == {k \in 1..Len(node.body) : Entered(node.body[k])}
    IN  IF S = {} THEN <<>> ELSE <<node.body[Max(S)]>>

\* C16: the scope stack holds one scope for each node of the listed types
\* that the traversal has entered and not left, the innermost last; the
\* prevNode of each is the last statement of that node's own list that has
\* been entered, whatever was walked inside it; after Program:exit the
\* stack is empty.
C16_ScopeStackFollowsNesting ==
    (rule = "statements" /\ pc = "traversing") =>
        /\ Len(scopeInfo) = Len(OpenScopes)
        /\ \A k \in 1..Len(scopeInfo) :
               scopeInfo[k].prevNode =
                   LastEntered(OpenScopes[Len(scopeInfo) - k + 1].node)
        /\ events = <<>> => scopeInfo = <<>>

\* C16 witness: the scope of a switch case with two statements has been
\* popped, and the scope of the switch statement holds that case again,
\* three scopes deep.
C16_Witness ==
    /\ rule = "statements"
    /\ pc = "traversing"
    /\ Len(scopeInfo) >= 3
    /\ nextNode.type = "SwitchCase"
    /\ Len(nextNode.body) = 2
    /\ CurrentScope.prevNode = <<nextNode>>

\* a semicolon that ends the node, on another line than the token before
\* it and on the line of the token after it
DanglingSemicolon(t, node) ==
    LET last == getLastToken(t, node)
        before == Max({0} \cup {j \in 1..(last - 1) : IsToken(t[j])})
        after == {j \in (last + 1)..Len(t) : IsToken(t[j])}
    IN  /\ t[last] = "semi"
        /\ before # 0
        /\ after # {}
        /\ StartLine(t, last) # EndLine(t, before)
        /\ EndLine(t, last) = StartLine(t, Min(after))

TokenBeforeLast(t, node) ==
    Max({j \in 1..(getLastToken(t, node) - 1) : IsToken(t[j])})

\* the tokens and comments from i on, up to the first token of next, whose
\* successor starts two or more lines after they end
GapStarts(t, i, next) ==
    {j \in i..(getFirstToken(t, next) - 1) :
        /\ IsToken(t[j]) \/ IsComment(t[j])
        /\ \E h \in (j + 1)..getFirstToken(t, next) :
               /\ IsToken(t[h]) \/ IsComment(t[h])
               /\ \A m \in (j + 1)..(h - 1) : IsSpace(t[m])
               /\ StartLine(t, h) - EndLine(t, j) >= 2}

\* the left tokens of the pairs, which are in source order
LeftTokens(pairs) == [k \in 1..Len(pairs) |-> pairs[k][1]]

Increasing(seq) == \A k \in 1..(Len(seq) - 1) : seq[k] < seq[k + 1]

\* the pairs are the consecutive pairs with a gap, from token i on, in order
GapsFrom(t, i, next, pairs) ==
    /\ Increasing(LeftTokens(pairs))
    /\ {pairs[k][1] : k \in 1..Len(pairs)} = GapStarts(t, i, next)
    /\ \A k \in 1..Len(pairs) :
           /\ pairs[k][2] > pairs[k][1]
           /\ IsToken(t[pairs[k][2]]) \/ IsComment(t[pairs[k][2]])
           /\ \A m \in (pairs[k][1] + 1)..(pairs[k][2] - 1) : IsSpace(t[m])

\* C17 as stated: the pairs run from prev's last token, or from the token
\* before it when the last token is a dangling semicolon.
C17_GapsFromLastToken ==
    (rule = "statements" /\ Linted /\ pc # "traversing") =>
        LET c == checked[1]
        IN  GapsFrom(text,
                     IF DanglingSemicolon(text, c.prev)
                     THEN TokenBeforeLast(text, c.prev)
                     ELSE getLastToken(text, c.prev),
                     c.next, c.paddingLines)

\* C17 amended: the dangling semicolon is replaced by the token before it
\* only when that token belongs to prev, that is, when the semicolon is not
\* the only token of prev.
C17_GapsFromActualLastToken ==
    (rule = "statements" /\ Linted /\ pc # "traversing") =>
        LET c == checked[1]
        IN  GapsFrom(text,
                     IF DanglingSemicolon(text, c.prev) /\ c.prev.first < c.prev.last
                     THEN TokenBeforeLast(text, c.prev)
                     ELSE getLastToken(text, c.prev),
                     c.next, c.paddingLines)

\* C17 witness: prev ends in a dangling semicolon of its own, and the walk
\* recorded the pair of the token before the semicolon and the semicolon.
C17_Witness ==
    /\ rule = "statements"
    /\ pc = "linted"
    /\ checked # <<>>
    /\ DanglingSemicolon(text, checked[1].prev)
    /\ checked[1].prev.first < checked[1].prev.last
    /\ Len(checked[1].paddingLines) = 1
    /\ checked[1].paddingLines[1][2] = getLastToken(text, checked[1].prev)

\* prev's last token, or the token before it when the last token is a
\* dangling semicolon and not prev's only token
ActualLast(t, node) ==
    IF DanglingSemicolon(t, node) /\ node.first < node.last
    THEN TokenBeforeLast(t, node)
    ELSE getLastToken(t, node)

Shown(t, j) == IsToken(t[j]) \/ IsComment(t[j])

\* the token or comment after j
Following(t, j) == Min({h \in (j + 1)..Len(t) : Shown(t, h)})

\* every token or comment after i up to p starts on the line on which the
\* one before it ends
SameLineChain(t, i, p) ==
    \A j \in (i + 1)..p :
        Shown(t, j) =>
            StartLine(t, j) =
                EndLine(t, Max({h \in i..(j - 1) : Shown(t, h)}))

\* C18: the always fix is one insertion, right after the last token or
\* comment of the same-line chain that starts at prev's actual last token;
\* it inserts two line breaks when what follows the insertion point starts
\* on the line the insertion point ends on, and one otherwise.
C18_AlwaysFixInsertsAfterChain ==
    (rule = "statements" /\ Linted /\ pc # "traversing" /\ reports # <<>>
        /\ reports[1].messageId = "expectedBlankLine") =>
        LET fix == reports[1].fix
            p == fix.range[1]
            start == ActualLast(text, checked[1].prev)
            stop == getFirstToken(text, checked[1].next)
        IN  /\ fix.range[2] = p
            /\ p \in start..(stop - 1)
            /\ Shown(text, p)
            /\ SameLineChain(text, start, p)
            /\ Following(text, p) < stop =>
                   StartLine(text, Following(text, p)) # EndLine(text, p)
            /\ fix.text =
                   IF StartLine(text, Following(text, p)) = EndLine(text, p)
                   THEN <<"nl", "nl">> ELSE <<"nl">>

\* C18 witness: the insertion point is a trailing comment, and one line
\* break is inserted after it.
C18_Witness ==
    /\ rule = "statements"
    /\ pc = "linted"
    /\ reports # <<>>
    /\ reports[1].messageId = "expectedBlankLine"
    /\ IsComment(text[reports[1].fix.range[1]])
    /\ reports[1].fix.text = <<"nl">>

(***************************************************************************)
(* Both rules.                                                             *)
(***************************************************************************)
Init == InitStatements \/ InitResolve \/ InitTypes \/ InitTraverse \/ InitObjects

Next == NextStatements \/ NextTraverse \/ NextObjects

Spec == Init /\ [][Next]_vars

====
